---- MODULE Spec2Model ----
(***************************************************************************)
(* Personal Finance Tracker (Personal_Finance_Tracker.py).                  *)
(*                                                                         *)
(* State: the tracker's DataFrame self.df (its column list, its rows and   *)
(* the dtype of the Description column), the CSV file finance_data.csv,    *)
(* the report files report_<month>.txt, and the value the last call        *)
(* returned.  One action per method of PersonalFinanceTracker, plus the    *)
(* start (constructor) and the exit of interactive_menu.                   *)
(*                                                                         *)
(* Amounts are integer-valued floats: float64 addition is exact on them.   *)
(***************************************************************************)
EXTENDS Integers, Sequences, FiniteSets, TLC

VARIABLES running, df, storage, reports, ret, out

vars == <<running, df, storage, reports, ret, out>>

\* ---------------------------------------------------------------- bounds

\* Longest ledger the interactive specification builds.
MaxLen == 2

\* Longest ledger the aggregate specification starts from.
MaxAggLen == 3

\* Longest ledger the report specification starts from.
MaxTopLen == 6

\* ------------------------------------------------------------- constants

\* month_data.sort_values(...).head(5)
TopN == 5

\* self.categories
categories ==
    <<"Food", "Transportation", "Housing", "Entertainment", "Utilities",
      "Healthcare", "Shopping", "Education", "Other">>

\* pd.DataFrame(columns=[...])
BaseColumns == <<"Date", "Amount", "Category", "Description">>

\* A missing value of a pandas column (float nan / NaT).
NaN == "<NaN>"

\* The strings pandas.read_csv reads as a missing value (its default
\* na_values, the ones that matter here).
NaStrings == {"", "NA", "N/A", "NaN", "nan", "NULL", "null", "None"}

\* ---------------------------------------------------------------- inputs

AmountArgs == {"-5", "100", "abc"}
CategoryArgs == {"Food", "Vacation"}
DescriptionArgs == {"", "lunch"}
DateArgs == {"None", "2024-01-05", "not-a-date"}
MonthArgs == {"None", "2024-01", "2024-03"}

\* datetime.now(): the wall clock of the run.
Now == [day |-> "2024-02-01", time |-> "09:30:00"]

\* ---------------------------------------------------------- conversions

Range(s) == {s[i] : i \in DOMAIN s}

\* Python float(x) on the strings it parses; any other string raises
\* ValueError.  The second group is what to_csv wrote (repr of a float).
FloatTable ==
    [s \in {"-5", "50", "100", "-5.0", "50.0", "100.0"} |->
        CASE s \in {"-5", "-5.0"} -> 0 - 5
          [] s \in {"50", "50.0"} -> 50
          [] s \in {"100", "100.0"} -> 100]

IsFloat(s) == s \in DOMAIN FloatTable

\* repr(float) as to_csv writes it.
FloatRepr(a) ==
    CASE a = 0 - 5 -> "-5.0"
      [] a = 50 -> "50.0"
      [] a = 100 -> "100.0"

\* pd.to_datetime(x) on the strings it parses; any other string raises.
DatetimeTable ==
    [s \in {"2024-01-05", "2024-01-05 00:00:00", "2024-02-01 09:30:00"} |->
        CASE s \in {"2024-01-05", "2024-01-05 00:00:00"} ->
                [day |-> "2024-01-05", time |-> "00:00:00"]
          [] s = "2024-02-01 09:30:00" ->
                [day |-> "2024-02-01", time |-> "09:30:00"]]

IsDatetime(s) == s \in DOMAIN DatetimeTable

\* to_csv of a datetime64 column: the date alone when every value of the
\* column is at midnight, date and time otherwise.
FormatDatetime(ts, dateOnly) ==
    CASE ts.day = "2024-01-05" /\ dateOnly -> "2024-01-05"
      [] ts.day = "2024-01-05" /\ ~dateOnly -> "2024-01-05 00:00:00"
      [] ts.day = "2024-02-01" -> "2024-02-01 09:30:00"

\* Timestamp.strftime('%Y-%m')
strftime_Ym(ts) ==
    CASE ts.day = "2024-01-05" -> "2024-01"
      [] ts.day = "2024-02-01" -> "2024-02"

\* ------------------------------------------------------------ DataFrame

\* pd.DataFrame(columns=[...]): no rows, every column of dtype object.
EmptyFrame ==
    [columns |-> BaseColumns, rows |-> <<>>, descDtype |-> "object"]

\* The tracker before __init__ has run and after the process has ended.
NoFrame == [columns |-> <<>>, rows |-> <<>>, descDtype |-> "none"]

\* No file at this path.
NoFile == [exists |-> FALSE, header |-> <<>>, lines |-> <<>>]

\* DataFrame.to_csv(path, index=False): the header line, then one line per
\* row with one cell per column, a missing value written as the empty cell.
ToCsvCell(frame, r, c) ==
    CASE c = "Date" ->
            FormatDatetime(r[c],
                \A i \in DOMAIN frame.rows : frame.rows[i].Date.time = "00:00:00")
      [] c = "Amount" -> FloatRepr(r[c])
      [] OTHER -> IF r[c] = NaN THEN "" ELSE r[c]

to_csv(frame) ==
    [exists |-> TRUE,
     header |-> frame.columns,
     lines |-> [i \in DOMAIN frame.rows |->
                   [k \in DOMAIN frame.columns |->
                       ToCsvCell(frame, frame.rows[i], frame.columns[k])]]]

\* save_data
save_data(frame) == to_csv(frame)

\* pd.read_csv raises on a file without a header line (EmptyDataError);
\* self.df['Date'] raises KeyError when there is no Date column.
Unreadable(file) ==
    file.exists /\ (file.header = <<>> \/ "Date" \notin Range(file.header))

ColumnIndex(header, c) == CHOOSE k \in DOMAIN header : header[k] = c

\* A text column of read_csv: all cells missing (and at least one row) makes
\* it float64, otherwise object.
ReadDtype(file, c) ==
    IF file.lines # <<>>
       /\ \A i \in DOMAIN file.lines :
            file.lines[i][ColumnIndex(file.header, c)] \in NaStrings
    THEN "float64"
    ELSE "object"

ReadCell(c, cell) ==
    CASE c = "Date" -> DatetimeTable[cell]
      [] c = "Amount" -> FloatTable[cell]
      [] OTHER -> IF cell \in NaStrings THEN NaN ELSE cell

\* pd.read_csv(path) followed by pd.to_datetime(df['Date'])
read_csv(file) ==
    [columns |-> file.header,
     rows |-> [i \in DOMAIN file.lines |->
                  [c \in Range(file.header) |->
                      ReadCell(c, file.lines[i][ColumnIndex(file.header, c)])]],
     descDtype |-> ReadDtype(file, "Description")]

\* -------------------------------------------------------------- helpers

\* The membership check left out: every category passes.
NoCategoryCheck(category) == TRUE

\* category in self.categories
InCategories(category) == category \in Range(categories)

\* date = None -> datetime.now(); pd.to_datetime(date), and datetime.now()
\* when it raises.
ParseDate(date) ==
    IF date # "None" /\ IsDatetime(date) THEN DatetimeTable[date] ELSE Now

\* new_expense[col].astype(self.df[col].dtype) on the Description column: a
\* text cannot be cast to float64 unless it spells a number.
CastOk(frame, description) ==
    frame.descDtype = "object" \/ IsFloat(description)

\* pd.concat([self.df, new_expense], ignore_index=True): the new row last,
\* a column it lacks filled with NaN.
concat(frame, new) ==
    [frame EXCEPT !.rows =
        Append(frame.rows,
               [c \in Range(frame.columns) |->
                   IF c \in DOMAIN new THEN new[c] ELSE NaN])]

\* self.df['Month'] = self.df['Date'].dt.strftime('%Y-%m'): adds the column
\* when it is missing and recomputes it on every row.
AssignMonth(frame) ==
    [frame EXCEPT
        !.columns = IF "Month" \in Range(frame.columns)
                    THEN frame.columns
                    ELSE Append(frame.columns, "Month"),
        !.rows = [i \in DOMAIN frame.rows |->
                     [c \in Range(frame.columns) \cup {"Month"} |->
                         IF c = "Month"
                         THEN strftime_Ym(frame.rows[i].Date)
                         ELSE frame.rows[i][c]]]]

RECURSIVE SumAmount(_)
\* Series.sum() of the Amount column of these rows.
SumAmount(rows) ==
    IF rows = <<>> THEN 0 ELSE rows[1].Amount + SumAmount(Tail(rows))

\* The keys of groupby(col): the values that occur in the column.
GroupKeys(rows, col) == {rows[i][col] : i \in DOMAIN rows}

\* groupby(col)['Amount'].sum() at one key.
GroupSum(rows, col, key) ==
    SumAmount(SelectSeq(rows, LAMBDA r : r[col] = key))

RECURSIVE AscendingOrders(_, _)
\* sort_values() with its default ascending=True.
AscendingOrders(f, S) ==
    IF S = {}
    THEN {<<>>}
    ELSE LET low == {k \in S : \A j \in S : f[k] <= f[j]}
         IN UNION {{<<k>> \o t : t \in AscendingOrders(f, S \ {k})} : k \in low}

RECURSIVE DescendingOrders(_, _)
\* sort_values(ascending=False) with the default kind='quicksort', which is
\* not stable: every order of the keys S with non-increasing f, equal values
\* in any order.
DescendingOrders(f, S) ==
    IF S = {}
    THEN {<<>>}
    ELSE LET top == {k \in S : \A j \in S : f[j] <= f[k]}
         IN UNION {{<<k>> \o t : t \in DescendingOrders(f, S \ {k})} : k \in top}

\* head(n)
Head_n(s, n) == SubSeq(s, 1, IF Len(s) < n THEN Len(s) ELSE n)

\* groupby('Category')['Amount'].sum() as a mapping category -> sum.
CategorySums(rows) ==
    [c \in GroupKeys(rows, "Category") |-> GroupSum(rows, "Category", c)]

\* A Series listed in the order given: <<key, value>> pairs.
SeriesOf(f, order) == [i \in DOMAIN order |-> <<order[i], f[order[i]]>>]

\* groupby('Category')['Amount'].sum().sort_values(ascending=False)
CategorySeries(rows) ==
    {SeriesOf(CategorySums(rows), o) :
        o \in DescendingOrders(CategorySums(rows), GroupKeys(rows, "Category"))}

\* groupby('Month')['Amount'].sum() as a mapping month -> sum.
MonthSums(rows) ==
    [m \in GroupKeys(rows, "Month") |-> GroupSum(rows, "Month", m)]

\* pivot_table with aggfunc='first': the first amount of the cell, not the sum.
PivotCellFirst(rows, m, c) ==
    LET sel == SelectSeq(rows, LAMBDA r : r.Month = m /\ r.Category = c)
    IN [na |-> sel = <<>>, v |-> IF sel = <<>> THEN 0 ELSE sel[1].Amount]

\* pivot_table(index='Month', columns='Category', values='Amount',
\* aggfunc='sum'): one cell per (month, category) of the data, missing when
\* no row has both.
PivotCell(rows, m, c) ==
    LET sel == SelectSeq(rows, LAMBDA r : r.Month = m /\ r.Category = c)
    IN [na |-> sel = <<>>, v |-> SumAmount(sel)]

\* .fillna(0)
fillna0(cell) == IF cell.na THEN 0 ELSE cell.v

pivot_table(rows) ==
    [m \in GroupKeys(rows, "Month") |->
        [c \in GroupKeys(rows, "Category") |-> fillna0(PivotCell(rows, m, c))]]

\* self.df[self.df['Month'] == month]: the index labels of the rows kept.
MonthIndex(rows, month) == {i \in DOMAIN rows : rows[i].Month = month}

RECURSIVE SumOver(_, _)
\* month_data['Amount'].sum()
SumOver(rows, idx) ==
    IF idx = {}
    THEN 0
    ELSE LET i == CHOOSE i \in idx : TRUE
         IN rows[i].Amount + SumOver(rows, idx \ {i})

\* month_data.sort_values('Amount', ascending=False).head(5), as the index
\* labels iterrows yields (the positions in the ledger, counted from 1 here).
TopExpenses(rows, idx) ==
    {Head_n(o, TopN) : o \in DescendingOrders([i \in idx |-> rows[i].Amount], idx)}

\* The rows of month_data, in ledger order.
MonthRows(rows, month) == SelectSeq(rows, LAMBDA r : r.Month = month)

\* ----------------------------------------------------------- operations

\* __init__ that falls back to a fresh empty file when the file cannot be
\* read, replacing it.
StorageAfterInitRecreate(file) ==
    IF file.exists /\ ~Unreadable(file) THEN file ELSE save_data(EmptyFrame)

\* The file finance_data.csv after __init__: left as it is when it exists,
\* created from the empty DataFrame (save_data) when it does not.
StorageAfterInit(file) ==
    IF file.exists THEN file ELSE save_data(EmptyFrame)

\* PersonalFinanceTracker.__init__, as interactive_menu calls it when the
\* program starts.  An exception of read_csv / df['Date'] / to_datetime is
\* not caught: it ends the program.
PersonalFinanceTracker ==
    /\ ~running
    /\ \/ /\ Unreadable(storage)
          /\ ret' = "LoadError"
          /\ UNCHANGED <<running, df>>
       \/ /\ storage.exists
          /\ ~Unreadable(storage)
          /\ df' = read_csv(storage)
          /\ running' = TRUE
          /\ ret' = "Loaded"
       \/ /\ ~storage.exists
          /\ df' = EmptyFrame
          /\ running' = TRUE
          /\ ret' = "Created"
    /\ storage' = StorageAfterInit(storage)
    /\ out' = <<>>
    /\ UNCHANGED reports

\* add_expense(amount, category, description, date)
add_expense(amount, category, description, date) ==
    /\ running
    /\ Len(df.rows) < MaxLen
    /\ \/ /\ ~InCategories(category)
          /\ ret' = "False"
          /\ UNCHANGED <<df, storage>>
       \/ /\ InCategories(category)
          /\ ~IsFloat(amount) \/ ~CastOk(df, description)
          /\ ret' = "ValueError"
          /\ UNCHANGED <<df, storage>>
       \/ /\ InCategories(category)
          /\ IsFloat(amount)
          /\ CastOk(df, description)
          /\ df' = concat(df, [Date |-> ParseDate(date),
                               Amount |-> FloatTable[amount],
                               Category |-> category,
                               Description |-> description])
          /\ storage' = save_data(df')
          /\ ret' = "True"
    /\ out' = <<>>
    /\ UNCHANGED <<running, reports>>

\* get_expenses_by_category
get_expenses_by_category ==
    /\ running
    /\ ret' = "by_category"
    /\ \E series \in CategorySeries(df.rows) : out' = series
    /\ UNCHANGED <<running, df, storage, reports>>

\* get_expenses_by_month
get_expenses_by_month ==
    /\ running
    /\ ret' = "by_month"
    /\ df' = AssignMonth(df)
    /\ out' = MonthSums(df'.rows)
    /\ UNCHANGED <<running, storage, reports>>

\* get_category_expenses_by_month
get_category_expenses_by_month ==
    /\ running
    /\ ret' = "pivot"
    /\ df' = AssignMonth(df)
    /\ out' = pivot_table(df'.rows)
    /\ UNCHANGED <<running, storage, reports>>

\* month = None -> datetime.now().strftime('%Y-%m')
ReportMonth(month) == IF month = "None" THEN strftime_Ym(Now) ELSE month

\* What generate_monthly_report prints and writes for a month with rows.
\* The text is rendered from these values (the percentages from the
\* amounts and the total).
ReportsOf(frame, month) ==
    LET rows == frame.rows
        idx == MonthIndex(rows, month)
    IN {[month |-> month,
         total |-> SumOver(rows, idx),
         breakdown |-> b,
         top |-> t] :
            b \in CategorySeries(MonthRows(rows, month)),
            t \in TopExpenses(rows, idx)}

\* open(report_path, 'w'): the file of this month is created or replaced.
WriteReport(files, month, text) ==
    [m \in DOMAIN files \cup {month} |-> IF m = month THEN text ELSE files[m]]

\* generate_monthly_report(month)
generate_monthly_report(month) ==
    /\ running
    /\ df' = AssignMonth(df)
    /\ \/ /\ MonthIndex(df'.rows, ReportMonth(month)) = {}
          /\ ret' = "Empty"
          /\ out' = <<>>
          /\ UNCHANGED reports
       \/ /\ MonthIndex(df'.rows, ReportMonth(month)) # {}
          /\ ret' = "Report"
          /\ \E report \in ReportsOf(df', ReportMonth(month)) :
                /\ out' = report
                /\ reports' = WriteReport(reports, ReportMonth(month), report)
    /\ UNCHANGED <<running, storage>>

\* interactive_menu, choice 6: the program ends and the DataFrame with it.
Exit ==
    /\ running
    /\ running' = FALSE
    /\ df' = NoFrame
    /\ ret' = "Exit"
    /\ out' = <<>>
    /\ UNCHANGED <<storage, reports>>

\* ------------------------------------------------------- specifications

\* What may be at the path of finance_data.csv when the program first
\* starts: nothing, a zero-byte file, or a file that is no ledger.
InitialStorages ==
    {NoFile,
     [exists |-> TRUE, header |-> <<>>, lines |-> <<>>],
     [exists |-> TRUE, header |-> <<"PK">>, lines |-> <<>>]}

Init ==
    /\ running = FALSE
    /\ df = NoFrame
    /\ storage \in InitialStorages
    /\ reports = <<>>
    /\ ret = "None"
    /\ out = <<>>

Next ==
    \/ PersonalFinanceTracker
    \/ \E amount \in AmountArgs, category \in CategoryArgs,
          description \in DescriptionArgs, date \in DateArgs :
            add_expense(amount, category, description, date)
    \/ get_expenses_by_category
    \/ get_expenses_by_month
    \/ get_category_expenses_by_month
    \/ \E month \in MonthArgs : generate_monthly_report(month)
    \/ Exit

Spec == Init /\ [][Next]_vars

\* The aggregates as functions of the ledger: every ledger of at most
\* MaxAggLen valid rows over two months and two categories, as add_expense
\* leaves it, with the three aggregate methods applied to it.
AggRows ==
    {[Date |-> d, Amount |-> a, Category |-> c, Description |-> "lunch"] :
        d \in {DatetimeTable["2024-01-05"], Now},
        a \in {0 - 5, 50, 100},
        c \in {"Food", "Housing"}}

\* The DataFrames with these rows and n of them at most.
FramesOf(rowSet, n) ==
    {[EmptyFrame EXCEPT !.rows = r] :
        r \in UNION {[1..k -> rowSet] : k \in 0..n}}

InitOn(frames) ==
    /\ running = TRUE
    /\ df \in frames
    /\ storage = save_data(df)
    /\ reports = <<>>
    /\ ret = "None"
    /\ out = <<>>

InitAgg == InitOn(FramesOf(AggRows, MaxAggLen))

NextAgg ==
    \/ get_expenses_by_category
    \/ get_expenses_by_month
    \/ get_category_expenses_by_month

SpecAgg == InitAgg /\ [][NextAgg]_vars

\* The monthly report as a function of the ledger: every ledger of at most
\* MaxTopLen rows of one month whose amounts are 50 or 100.
TopRows ==
    {[Date |-> DatetimeTable["2024-01-05"], Amount |-> a,
      Category |-> "Food", Description |-> "lunch"] : a \in {50, 100}}

InitTop == InitOn(FramesOf(TopRows, MaxTopLen))

NextTop == \E month \in MonthArgs : generate_monthly_report(month)

SpecTop == InitTop /\ [][NextTop]_vars

\* --------------------------------------------------------------- claims

\* The four fields of every transaction of a DataFrame, the date at day
\* granularity, in ledger order.
Ledger(frame) ==
    [i \in DOMAIN frame.rows |->
        [date |-> frame.rows[i].Date.day,
         amount |-> frame.rows[i].Amount,
         category |-> frame.rows[i].Category,
         description |-> frame.rows[i].Description]]

\* The month of a transaction, from its date.
MonthOfRow(r) == strftime_Ym(r.Date)

RECURSIVE SumOfMap(_, _)
\* The sum of the values of mapping f at the keys S.
SumOfMap(f, S) ==
    IF S = {}
    THEN 0
    ELSE LET k == CHOOSE k \in S : TRUE IN f[k] + SumOfMap(f, S \ {k})

RECURSIVE SumOfSeries(_)
\* The sum of the values of a Series of <<key, value>> pairs.
SumOfSeries(series) ==
    IF series = <<>> THEN 0 ELSE series[1][2] + SumOfSeries(Tail(series))

\* C1: after a successful append (and its automatic save), a fresh load of
\* the persisted file yields the same transactions as the ledger in memory,
\* in the same order, with the same date (day), amount, category and
\* description.
C1_RoundTrip ==
    (running /\ ret = "True") => Ledger(read_csv(storage)) = Ledger(df)

\* C2: an append whose category is not in the fixed set returns the
\* InvalidCategory outcome (False) and leaves the ledger in memory and the
\* persisted file unchanged, whatever the amount, description and date.
C2_InvalidCategoryRejected ==
    [][\A amount \in AmountArgs, category \in CategoryArgs,
          description \in DescriptionArgs, date \in DateArgs :
            (add_expense(amount, category, description, date)
             /\ category \notin Range(categories))
            => (ret' = "False" /\ df' = df /\ storage' = storage)]_vars

\* C2 witness: an append with an invalid category was rejected on a ledger
\* that holds transactions.
C2_Witness ==
    running /\ ret = "False" /\ df.rows # <<>> /\ storage = to_csv(df)

\* C3: every transaction of the ledger has a category of the fixed set and
\* a non-negative amount.
C3_LedgerInvariant ==
    \A i \in DOMAIN df.rows :
        /\ df.rows[i].Category \in Range(categories)
        /\ df.rows[i].Amount >= 0

\* C4: the three aggregate operations leave the ledger unchanged: its
\* transactions, their order and the columns each record carries.
C4_AggregatesArePureReads ==
    [][(get_expenses_by_category \/ get_expenses_by_month
        \/ get_category_expenses_by_month) => df' = df]_vars

C7_EmptyReportChangesNothing ==
    [][/\ \A month \in MonthArgs :
            (generate_monthly_report(month)
             /\ \A i \in DOMAIN df.rows :
                  MonthOfRow(df.rows[i]) # ReportMonth(month))
            => (ret' = "Empty" /\ reports' = reports
                /\ df' = df /\ storage' = storage)
       /\ \A m \in DOMAIN reports' :
            (m \notin DOMAIN reports \/ reports'[m] # reports[m])
            => \E i \in DOMAIN df.rows : MonthOfRow(df.rows[i]) = m]_vars

\* C8: the top list of a report is the transactions of the month by amount
\* descending, equal amounts in ledger order, cut to the first five.
C8_TopFiveStable ==
    ret = "Report" =>
        LET rows == df.rows
            idx == {i \in DOMAIN rows : MonthOfRow(rows[i]) = out.month}
            top == out.top
            Before(i, j) ==
                \/ rows[i].Amount > rows[j].Amount
                \/ rows[i].Amount = rows[j].Amount /\ i < j
        IN /\ Len(top) = IF Cardinality(idx) < 5 THEN Cardinality(idx) ELSE 5
           /\ \A k \in DOMAIN top : top[k] \in idx
           /\ \A k, l \in DOMAIN top : k < l => Before(top[k], top[l])
           /\ \A i \in idx :
                (\A k \in DOMAIN top : top[k] # i)
                => \A k \in DOMAIN top : Before(top[k], i)

\* C9: a load of a file that exists but cannot be read fails, surfaced to
\* the caller, and leaves the file as it is; a load writes the file only
\* when there was none, and then the ledger is empty and the file holds it.
C9_LoadNeverOverwrites ==
    [][~running =>
        /\ Unreadable(storage)
           => (storage' = storage /\ ~running' /\ ret' = "LoadError")
        /\ storage.exists => storage' = storage
        /\ ~storage.exists
           => /\ running'
              /\ df'.rows = <<>>
              /\ storage' = [exists |-> TRUE, header |-> BaseColumns,
                             lines |-> <<>>]]_vars

\* C9 witness: the load of an unreadable file has failed and the file is
\* still there.
C9_Witness ==
    ~running /\ ret = "LoadError" /\ Unreadable(storage)

\* C10: a successful append extends the ledger by one transaction at the
\* end and leaves the earlier ones as they were, and the file it overwrites
\* holds the ledger, one line per transaction, under the columns Date,
\* Amount, Category, Description; no operation removes or alters a
\* transaction.
C10_StorageInSync ==
    [][/\ (running /\ running')
          => /\ Len(df'.rows) >= Len(df.rows)
             /\ SubSeq(Ledger(df'), 1, Len(df.rows)) = Ledger(df)
       /\ (running /\ ret' = "True" /\ Len(df'.rows) > Len(df.rows))
          => /\ Len(df'.rows) = Len(df.rows) + 1
             /\ storage'.header = BaseColumns
             /\ Len(storage'.lines) = Len(df'.rows)
             /\ \A i \in DOMAIN df'.rows :
                  storage'.lines[i] =
                    [k \in DOMAIN BaseColumns |->
                        ToCsvCell(df', df'.rows[i], BaseColumns[k])]]_vars

====
